---- MODULE Spec2Model ----
(***************************************************************************)
(* The container process supervisor of xc (container/runner/mod.rs): the   *)
(* kqueue event loop of ProcessRunner, its two serial execution queues,    *)
(* the process registry (pmap / rpmap) and the lifecycle rules, together   *)
(* with the part of the kernel the loop talks to (processes, the pending   *)
(* kernel events, the one-shot timer and the user-kill knote).             *)
(***************************************************************************)
EXTENDS Integers, Sequences, FiniteSets, TLC

\* ------------------------------------------------------------------ bounds
\* Longest init_proto / deinit_proto of a container.
MaxInit == 2
MaxDeinit == 2
\* Pids the kernel hands out over the supervisor's lifetime (spawns and forks).
MaxPid == 3
\* Forks by the processes of the jail over the supervisor's lifetime.
MaxFork == 2
\* Control requests the client sends over the control stream.
MaxReq == 2
\* Kernel events pending at once when kevent returns.
MaxPending == 1

\* ------------------------------------------------------- program constants
\* Size of the event buffer handed to kevent.
MaxEvents == 64
\* The deinit grace timer: ident and seconds.
TimerIdent == 1486
GraceSeconds == 15
\* ident of the EVFILT_USER kill event.
UserKillIdent == 2
\* freebsd::libc::EIO
EIO == 5

\* ------------------------------------------------------------------ Option
None == <<>>
Some(x) == <<x>>
IsSome(o) == o # <<>>
Unwrap(o) == o[1]

\* HashMap: insert and remove.
EmptyMap == [k \in {} |-> 0]
MapInsert(m, k, v) == [x \in DOMAIN m \cup {k} |-> IF x = k THEN v ELSE m[x]]
MapRemove(m, k) == [x \in DOMAIN m \ {k} |-> m[x]]

\* --------------------------------------------------------------- SerialExec
\* format!("{}.{}", self.base_id, self.idx)
MintId(base_id, idx) == base_id \o "." \o ToString(idx)

\* SerialExec::new
SerialExecNew(base_id, execs, activated) ==
    [base_id |-> base_id, idx |-> 0, execs |-> execs,
     last_spawn |-> None, activated |-> activated]

\* SerialExec::activate
activate(q) == [q EXCEPT !.activated = TRUE]

\* SerialExec::is_empty
is_empty(q) == q.execs = <<>>

\* A pop_front that does not advance idx. The dispatch order (C24) must tell
\* it from the code's.
pop_front_keeps_idx(q) ==
    IF q.execs = <<>>
    THEN [q |-> q, out |-> None]
    ELSE [q |-> [q EXCEPT !.execs = Tail(q.execs),
                          !.last_spawn = Some(MintId(q.base_id, q.idx))],
          out |-> Some([id |-> MintId(q.base_id, q.idx), exec |-> Head(q.execs)])]

\* SerialExec::pop_front: the queue afterwards and the (id, exec) popped, if any.
pop_front(q) ==
    IF q.execs = <<>>
    THEN [q |-> q, out |-> None]
    ELSE [q |-> [q EXCEPT !.execs = Tail(q.execs),
                          !.last_spawn = Some(MintId(q.base_id, q.idx)),
                          !.idx = q.idx + 1],
          out |-> Some([id |-> MintId(q.base_id, q.idx), exec |-> Head(q.execs)])]

\* A try_drain_proc_queue that does not look at `activated`. The four cases
\* of try_drain (C23) must tell it from the code's.
try_drain_when_inactive(q, id, next_processes) ==
    IF IsSome(q.last_spawn) /\ Unwrap(q.last_spawn) # id
    THEN [q |-> q, next |-> next_processes, drained |-> FALSE]
    ELSE IF IsSome(q.last_spawn) /\ Unwrap(q.last_spawn) = id /\ is_empty(q)
    THEN [q |-> q, next |-> next_processes, drained |-> TRUE]
    ELSE IF ~is_empty(q)
    THEN [q |-> [q EXCEPT !.execs = Tail(q.execs),
                          !.last_spawn = Some(MintId(q.base_id, q.idx)),
                          !.idx = q.idx + 1],
          next |-> Append(next_processes,
                          [id |-> MintId(q.base_id, q.idx), exec |-> Head(q.execs)]),
          drained |-> FALSE]
    ELSE [q |-> q, next |-> next_processes, drained |-> FALSE]

\* A try_drain_proc_queue that does not compare `id` with last_spawn: it
\* dispatches the next spec whoever exited. The user-kill rule (C8) must
\* tell it from the code's.
try_drain_any_exit(q, id, next_processes) ==
    IF ~q.activated
    THEN [q |-> q, next |-> next_processes, drained |-> FALSE]
    ELSE IF ~is_empty(q)
    THEN [q |-> [q EXCEPT !.execs = Tail(q.execs),
                          !.last_spawn = Some(MintId(q.base_id, q.idx)),
                          !.idx = q.idx + 1],
          next |-> Append(next_processes,
                          [id |-> MintId(q.base_id, q.idx), exec |-> Head(q.execs)]),
          drained |-> FALSE]
    ELSE [q |-> q, next |-> next_processes,
          drained |-> IsSome(q.last_spawn) /\ Unwrap(q.last_spawn) = id]

\* SerialExec::try_drain_proc_queue: the queue afterwards, the spawn queue
\* afterwards and the returned bool.
try_drain_proc_queue(q, id, next_processes) ==
    IF ~q.activated
    THEN [q |-> q, next |-> next_processes, drained |-> FALSE]
    ELSE IF IsSome(q.last_spawn) /\ Unwrap(q.last_spawn) # id
    THEN [q |-> q, next |-> next_processes, drained |-> FALSE]
    ELSE IF IsSome(q.last_spawn) /\ Unwrap(q.last_spawn) = id /\ is_empty(q)
    THEN [q |-> q, next |-> next_processes, drained |-> TRUE]
    ELSE IF ~is_empty(q)
    THEN [q |-> [q EXCEPT !.execs = Tail(q.execs),
                          !.last_spawn = Some(MintId(q.base_id, q.idx)),
                          !.idx = q.idx + 1],
          next |-> Append(next_processes,
                          [id |-> MintId(q.base_id, q.idx), exec |-> Head(q.execs)]),
          drained |-> FALSE]
    ELSE [q |-> q, next |-> next_processes, drained |-> FALSE]

\* ------------------------------------------------------------------- state
VARIABLES
    \* ProcessRunner
    container,      \* RunningContainer: flags, protos, destroyed
    auto_start,
    named_process,  \* Vec<ProcessRunnerStat>, each with its ProcessStat
    pmap,           \* child pid -> ancestor pid
    rpmap,          \* ancestor pid -> live pids of its tree
    started,        \* Option<u64>
    main_started,
    main_exited,
    spawn_queue,    \* VecDeque<(String, Jexec)>
    inits,
    deinits,
    \* locals of ProcessRunner::run
    pc,             \* "entry", "loop", "dispatch", "done", "panicked"
    last_deinit,    \* Option<String>
    nev,            \* events of the current kevent batch not yet handled
    \* kernel and environment
    alive,          \* pids of live processes of the jail
    next_pid,       \* the next pid the kernel hands out
    kq,             \* pending kernel events, in activation order
    timer,          \* "off" | "armed": the one-shot grace timer
    timer_arms,     \* how many times the timer has been registered
    kill_knote,     \* the EVFILT_USER knote: "none" | "added" | "triggered" | "gone"
    reqs,           \* control requests sent so far
    responses,      \* responses written to the control stream, in order
    forks,          \* forks so far
    notified,       \* exit-notify handles fired so far
    clock,          \* epoch seconds read so far (SystemTime::now)
    \* what the supervisor shows to the outside
    published,      \* the manifest in the watch channel
    effects,        \* what cleanup has done to the outside, in order
    spawn_errors,   \* ids whose queued spawn failed (the error log of run)
    \* the container's file system
    hosts,          \* the lines of <root>/etc/hosts
    hosts_io,       \* the last write_hosts: its entries and how its I/O went
    \* kernel bookkeeping
    ppid,           \* forked pid -> the pid that forked it
    \* SerialExec on its own
    serial,         \* a SerialExec
    serial_out,     \* the `next_processes` its try_drain_proc_queue pushes to
    serial_call,    \* its last call: operation, arguments, state before, result
    dispatched,     \* the (id, exec) pairs it has handed out so far, in order
    \* models::network on its own
    selector,       \* a MainAddressSelector
    selector_text,  \* Option: its text, as Display and Serialize write it
    selector_parsed,\* Option: what FromStr and Deserialize make of the text
    rdr,            \* a PortRedirection
    rdr_call        \* its last call: operation, arguments, value before, result

vars == <<container, auto_start, named_process, pmap, rpmap, started,
          main_started, main_exited, spawn_queue, inits, deinits, pc,
          last_deinit, nev, alive, next_pid, kq, timer, timer_arms,
          kill_knote, reqs, responses, forks, notified, clock,
          published, effects, spawn_errors, hosts, hosts_io, ppid,
          serial, serial_out, serial_call, dispatched,
          selector, selector_text, selector_parsed, rdr, rdr_call>>

\* The variables only the supervisor thread writes to the outside.
io == <<published, effects, spawn_errors, hosts, hosts_io>>

\* The variables of the supervisor, its kernel and its clients.
runner == <<container, auto_start, named_process, pmap, rpmap, started,
            main_started, main_exited, spawn_queue, inits, deinits, pc,
            last_deinit, nev, alive, next_pid, kq, timer, timer_arms,
            kill_knote, reqs, responses, forks, notified, clock, io, ppid>>

\* The variables of the units that are run on their own.
serial_unit == <<serial, serial_out, serial_call, dispatched>>
selector_unit == <<selector, selector_text, selector_parsed>>
rdr_unit == <<rdr, rdr_call>>
units == <<serial_unit, selector_unit, rdr_unit>>

\* Jexec values: the k-th spec of a proto list, the spec of the r-th exec request.
Jexec(proto, n) == [proto |-> proto, n |-> n]
ProtoList(proto, len) == [k \in 1..len |-> Jexec(proto, k)]

\* The containers a supervisor may be constructed with: those whose init,
\* main and deinit processes the pid budget can hold. The linux flag only
\* decides which errors a spawn can return: linux containers are taken
\* without init and deinit specs.
ProtoLens ==
    { l \in (0..MaxInit) \X (0..MaxDeinit) : l[1] + 1 + l[2] <= MaxPid }

Containers ==
    { c \in { [init_norun |-> f[1], main_norun |-> f[2], deinit_norun |-> f[3],
               persist |-> f[4],
               linux |-> lx,
               init_proto |-> ProtoList("init", l[1]),
               main_proto |-> mp,
               deinit_proto |-> ProtoList("deinit", l[2]),
               destroyed |-> None] :
              f \in [1..4 -> BOOLEAN], l \in ProtoLens, lx \in BOOLEAN,
              mp \in {None, Some(Jexec("main", 1))} } :
        c.linux => (c.init_proto = <<>> /\ c.deinit_proto = <<>>) }

\* RunningContainer::serialized, as far as the supervisor changes it.
serialized(c) == [destroyed |-> c.destroyed]

\* ProcessRunner::new: the state when ProcessRunner::run is entered.
\* <root>/etc/hosts as the image left it.
StaleHosts == <<"192.0.2.1 stale">>

InitRunner ==
    /\ container \in Containers
    /\ auto_start \in BOOLEAN
    /\ named_process = <<>>
    /\ pmap = EmptyMap
    /\ rpmap = EmptyMap
    /\ started = None
    /\ main_started = FALSE
    /\ main_exited = FALSE
    /\ spawn_queue = <<>>
    /\ inits = SerialExecNew("init", container.init_proto, ~container.init_norun)
    /\ deinits = SerialExecNew("deinit", container.deinit_proto, FALSE)
    /\ pc = "entry"
    /\ last_deinit = None
    /\ nev = 0
    /\ alive = {}
    /\ next_pid = 1
    /\ kq = <<>>
    /\ timer = "off"
    /\ timer_arms = 0
    /\ kill_knote = "none"
    /\ reqs = 0
    /\ responses = <<>>
    /\ forks = 0
    /\ notified = {}
    /\ clock = 0
    /\ published = serialized(container)
    /\ effects = <<>>
    /\ spawn_errors = {}
    /\ hosts = StaleHosts
    /\ hosts_io = None
    /\ ppid = EmptyMap

\* The units at rest: a SerialExec nobody calls, no selector, no redirection.
SerialIdle ==
    /\ serial = SerialExecNew("init", <<>>, FALSE)
    /\ serial_out = <<>>
    /\ serial_call = None
    /\ dispatched = <<>>

SelectorIdle ==
    /\ selector = None
    /\ selector_text = None
    /\ selector_parsed = None

RdrIdle ==
    /\ rdr = None
    /\ rdr_call = None

UnitsIdle ==
    /\ SerialIdle
    /\ SelectorIdle
    /\ RdrIdle

\* The state after ProcessRunner::new, before run.
Init ==
    /\ InitRunner
    /\ UnitsIdle

\* ---------------------------------------------------------- kernel events
ProcEvent(pid, fflag, data) ==
    [filter |-> "proc", ident |-> pid, fflags |-> {fflag}, data |-> data, req |-> None]
TimerEvent ==
    [filter |-> "timer", ident |-> TimerIdent, fflags |-> {}, data |-> 0, req |-> None]
UserEvent ==
    [filter |-> "user", ident |-> UserKillIdent, fflags |-> {}, data |-> 0, req |-> None]
\* A readable control stream holding one complete request.
ReadEvent(method, n, data) ==
    [filter |-> "read", ident |-> 0, fflags |-> {}, data |-> 1,
     req |-> Some([method |-> method, n |-> n, data |-> data])]

\* ------------------------------------------------------------ spawn_process
\* What spawn_process may return: Ok, or one of the errors. A spawn cannot
\* succeed once the kernel has no pid left.
SpawnErrors ==
    {"ExecutableNotFound", "SpawnIoError"}
      \cup (IF container.linux THEN {"MissingLinuxKmod", "BrandELFFailed"} ELSE {})
SpawnOutcomes == IF next_pid <= MaxPid THEN {"Ok"} \cup SpawnErrors ELSE SpawnErrors

\* ProcessRunnerStat and the ProcessStat it publishes to.
ProcessRunnerStat(id, pid, notify) ==
    [id |-> id, pid |-> pid, notify |-> notify,
     exit_code |-> None, tree_exited |-> FALSE, tree_signals |-> 0,
     sent |-> <<>>]

\* A spawn_process that registers the new process with an empty list in
\* rpmap. The tree-exit accounting (C18) must tell it from the code's.
spawn_process_unlisted(id, exec, notify, outcome) ==
    IF outcome = "Ok"
    THEN /\ named_process' = Append(named_process, ProcessRunnerStat(id, next_pid, notify))
         /\ rpmap' = MapInsert(rpmap, next_pid, <<>>)
         /\ alive' = alive \cup {next_pid}
         /\ next_pid' = next_pid + 1
         /\ notified' = notified
    ELSE /\ notified' = IF outcome = "SpawnIoError" /\ IsSome(notify)
                        THEN notified \cup {Unwrap(notify)} ELSE notified
         /\ UNCHANGED <<named_process, rpmap, alive, next_pid>>

\* ProcessRunner::spawn_process(id, exec, notify) returning `outcome`.
spawn_process(id, exec, notify, outcome) ==
    IF outcome = "Ok"
    THEN /\ named_process' = Append(named_process, ProcessRunnerStat(id, next_pid, notify))
         /\ rpmap' = MapInsert(rpmap, next_pid, <<next_pid>>)
         /\ alive' = alive \cup {next_pid}
         /\ next_pid' = next_pid + 1
         /\ notified' = notified
    ELSE /\ notified' = IF outcome = "SpawnIoError" /\ IsSome(notify)
                        THEN notified \cup {Unwrap(notify)} ELSE notified
         /\ UNCHANGED <<named_process, rpmap, alive, next_pid>>

\* No call of spawn_process.
no_spawn == UNCHANGED <<named_process, rpmap, alive, next_pid, notified>>

\* ProcessRunner::run_main: the spawn queue afterwards.
run_main(queue) ==
    IF IsSome(container.main_proto)
    THEN Append(queue, [id |-> "main", exec |-> Unwrap(container.main_proto)])
    ELSE queue

\* A start without the `started.is_none()` guard: every call starts the
\* container again. Started uniqueness (C9) must tell it from the code's.
start_unguarded(outcome) ==
    /\ clock' = clock + 1
    /\ started' = Some(clock + 1)
    /\ IF is_empty(inits) /\ ~container.main_norun
       THEN /\ spawn_queue' = run_main(spawn_queue)
            /\ inits' = inits
            /\ no_spawn
       ELSE /\ spawn_queue' = spawn_queue
            /\ IF IsSome(pop_front(inits).out)
               THEN /\ inits' = activate(pop_front(inits).q)
                    /\ spawn_process(Unwrap(pop_front(inits).out).id,
                                     Unwrap(pop_front(inits).out).exec,
                                     None, outcome)
               ELSE /\ inits' = inits
                    /\ no_spawn

\* ProcessRunner::start, its spawn (if any) returning `outcome`.
start(outcome) ==
    IF started = None
    THEN /\ clock' = clock + 1
         /\ started' = Some(clock + 1)
         /\ IF is_empty(inits) /\ ~container.main_norun
            THEN /\ spawn_queue' = run_main(spawn_queue)
                 /\ inits' = inits
                 /\ no_spawn
            ELSE /\ spawn_queue' = spawn_queue
                 /\ IF IsSome(pop_front(inits).out)
                    THEN /\ inits' = activate(pop_front(inits).q)
                         /\ spawn_process(Unwrap(pop_front(inits).out).id,
                                          Unwrap(pop_front(inits).out).exec,
                                          None, outcome)
                    ELSE /\ inits' = inits
                         /\ no_spawn
    ELSE /\ UNCHANGED <<clock, started, spawn_queue, inits>>
         /\ no_spawn

\* -------------------------------------------------------- handle_pid_event
\* ProcessRunner::pid_ancestor
RECURSIVE pid_ancestor(_, _)
pid_ancestor(m, pid) ==
    IF pid \in DOMAIN m THEN pid_ancestor(m, m[pid]) ELSE pid

\* Vec::remove at the position of the first x, if any.
RemoveFirst(seq, x) ==
    IF \E i \in 1..Len(seq) : seq[i] = x
    THEN LET pos == CHOOSE i \in 1..Len(seq) :
                        seq[i] = x /\ \A j \in 1..(i - 1) : seq[j] # x
         IN SubSeq(seq, 1, pos - 1) \o SubSeq(seq, pos + 1, Len(seq))
    ELSE seq

\* The ProcessStat a send_if_modified of the stat's watch channel publishes.
ProcessStat(exit_code, tree_exited) ==
    [exit_code |-> exit_code, tree_exited |-> tree_exited]

\* ProcessRunnerStat::set_exited: the stat afterwards, `sent` listing what
\* its watch channel has published.
set_exited(stat, exit_code) ==
    [stat EXCEPT !.exit_code = Some(exit_code),
                 !.sent = Append(@, ProcessStat(Some(exit_code), stat.tree_exited))]

\* A set_tree_exited that publishes a fresh status, without the exit code.
\* Monotonicity (C19) must tell it from the code's.
set_tree_exited_fresh(stat) ==
    [stat EXCEPT !.tree_exited = TRUE, !.tree_signals = @ + 1, !.exit_code = None,
                 !.sent = Append(@, ProcessStat(None, TRUE))]

\* ProcessRunnerStat::set_tree_exited: the stat afterwards, tree_signals
\* counting the calls (the notify it fires is added to `notified` by
\* on_tree_exit).
set_tree_exited(stat) ==
    [stat EXCEPT !.tree_exited = TRUE, !.tree_signals = @ + 1,
                 !.sent = Append(@, ProcessStat(stat.exit_code, TRUE))]

\* The state handle_pid_event works on, with what it returns (`ret`) and
\* whether it panicked.
RunnerState ==
    [named_process |-> named_process, pmap |-> pmap, rpmap |-> rpmap,
     inits |-> inits, deinits |-> deinits, spawn_queue |-> spawn_queue,
     last_deinit |-> last_deinit, timer |-> timer, timer_arms |-> timer_arms,
     main_exited |-> main_exited, notified |-> notified,
     ret |-> FALSE, panicked |-> FALSE]

\* A direct-exit handler that never registers the grace timer. The grace
\* rule (C7) must tell it from the code's.
on_direct_exit_no_timer(s, i, exit_code) ==
    LET stat == s.named_process[i]
        ri == try_drain_proc_queue(s.inits, stat.id, s.spawn_queue)
        q1 == IF ri.drained /\ ~container.main_norun THEN run_main(ri.next) ELSE ri.next
        rd == try_drain_proc_queue(s.deinits, stat.id, q1)
    IN [s EXCEPT !.named_process[i] = set_exited(stat, exit_code),
                 !.inits = ri.q,
                 !.deinits = rd.q,
                 !.spawn_queue = rd.next,
                 !.last_deinit = IF rd.drained THEN rd.q.last_spawn ELSE @]

\* handle_pid_event, `if ancestor == pid`: the direct child of named process
\* i exited with exit_code.
on_direct_exit(s, i, exit_code) ==
    LET stat == s.named_process[i]
        ri == try_drain_proc_queue(s.inits, stat.id, s.spawn_queue)
        q1 == IF ri.drained /\ ~container.main_norun THEN run_main(ri.next) ELSE ri.next
        rd == try_drain_proc_queue(s.deinits, stat.id, q1)
    IN [s EXCEPT !.named_process[i] = set_exited(stat, exit_code),
                 !.inits = ri.q,
                 !.deinits = rd.q,
                 !.spawn_queue = rd.next,
                 !.last_deinit = IF rd.drained THEN rd.q.last_spawn ELSE @,
                 !.timer = IF rd.drained THEN "armed" ELSE @,
                 !.timer_arms = IF rd.drained THEN @ + 1 ELSE @]

\* A tree-exit handler that never asks for a break. Happy-path termination
\* (C6) must tell it from the code's.
on_tree_exit_no_break(s, i) ==
    LET stat == s.named_process[i]
    IN [s EXCEPT !.named_process[i] = set_tree_exited(stat),
                 !.notified = IF IsSome(stat.notify)
                              THEN @ \cup {Unwrap(stat.notify)} ELSE @,
                 !.main_exited = IF stat.id = "main" THEN TRUE ELSE @]

\* handle_pid_event, `if descentdant_gone`: the tree of named process i is gone.
on_tree_exit(s, i) ==
    LET stat == s.named_process[i]
        s1 == [s EXCEPT !.named_process[i] = set_tree_exited(stat),
                        !.notified = IF IsSome(stat.notify)
                                     THEN @ \cup {Unwrap(stat.notify)} ELSE @]
    IN IF stat.id = "main"
       THEN IF (container.deinit_norun \/ is_empty(s.deinits)) /\ ~container.persist
            THEN [s1 EXCEPT !.main_exited = TRUE, !.ret = TRUE]
            ELSE LET r == try_drain_proc_queue(activate(s.deinits), "", s.spawn_queue)
                 IN [s1 EXCEPT !.main_exited = TRUE,
                               !.deinits = r.q,
                               !.spawn_queue = r.next]
       ELSE IF IsSome(s.last_deinit) /\ Unwrap(s.last_deinit) = stat.id
            THEN [s1 EXCEPT !.ret = TRUE]
            ELSE s1

\* A loop over the named processes that handles the tree exit before the
\* direct exit. The order of the two (C27) must tell it from the code's.
RECURSIVE for_named_process_tree_first(_, _, _, _, _, _)
for_named_process_tree_first(s, i, pid, ancestor, exit_code, gone) ==
    IF i > Len(s.named_process)
    THEN s
    ELSE IF s.named_process[i].pid # ancestor
    THEN for_named_process_tree_first(s, i + 1, pid, ancestor, exit_code, gone)
    ELSE LET direct(s1) == IF ancestor = pid /\ ~s1.ret
                           THEN on_direct_exit(s1, i, exit_code) ELSE s1
             tree(s0) == IF gone THEN on_tree_exit(s0, i) ELSE s0
             rest(s2) == IF s2.ret
                         THEN s2
                         ELSE for_named_process_tree_first(s2, i + 1, pid, ancestor,
                                                           exit_code, gone)
         IN CHOOSE r \in { rest(s2) : s2 \in { direct(s1) : s1 \in { tree(s0) : s0 \in {s} } } } : TRUE

\* handle_pid_event, `for stat in self.named_process.iter_mut()` from index i.
RECURSIVE for_named_process(_, _, _, _, _, _)
for_named_process(s, i, pid, ancestor, exit_code, gone) ==
    IF i > Len(s.named_process)
    THEN s
    ELSE IF s.named_process[i].pid # ancestor
    THEN for_named_process(s, i + 1, pid, ancestor, exit_code, gone)
    ELSE LET direct(s0) == IF ancestor = pid THEN on_direct_exit(s0, i, exit_code) ELSE s0
             tree(s1) == IF gone THEN on_tree_exit(s1, i) ELSE s1
             rest(s2) == IF s2.ret
                         THEN s2
                         ELSE for_named_process(s2, i + 1, pid, ancestor, exit_code, gone)
         IN CHOOSE r \in { rest(s2) : s2 \in { tree(s1) : s1 \in { direct(s0) : s0 \in {s} } } } : TRUE

\* A NOTE_EXIT handler that takes the tree for gone as soon as the direct
\* child exits. The attribution rule (C16) must tell it from the code's.
note_exit_direct_is_tree(s, pid, exit_code) ==
    LET ancestor == pid_ancestor(s.pmap, pid)
    IN IF ancestor \notin DOMAIN s.rpmap
       THEN [s EXCEPT !.panicked = TRUE]
       ELSE LET descentdant == RemoveFirst(s.rpmap[ancestor], pid)
                descentdant_gone == descentdant = <<>>
                s0 == [s EXCEPT !.pmap = MapRemove(@, pid),
                                !.rpmap[ancestor] = descentdant]
            IN IF ancestor = pid \/ descentdant_gone
               THEN for_named_process(s0, 1, pid, ancestor, exit_code, TRUE)
               ELSE s0

\* handle_pid_event, NOTE_EXIT of pid.
note_exit(s, pid, exit_code) ==
    LET ancestor == pid_ancestor(s.pmap, pid)
    IN IF ancestor \notin DOMAIN s.rpmap
       THEN [s EXCEPT !.panicked = TRUE]
       ELSE LET descentdant == RemoveFirst(s.rpmap[ancestor], pid)
                descentdant_gone == descentdant = <<>>
                s0 == [s EXCEPT !.pmap = MapRemove(@, pid),
                                !.rpmap[ancestor] = descentdant]
            IN IF ancestor = pid \/ descentdant_gone
               THEN for_named_process(s0, 1, pid, ancestor, exit_code, descentdant_gone)
               ELSE s0

\* A NOTE_CHILD handler that records the parent instead of the ancestor in
\* pmap. The registry rule (C17) must tell it from the code's.
note_child_unflattened(s, pid, parent) ==
    LET ancestor == pid_ancestor(s.pmap, parent)
    IN IF ancestor \notin DOMAIN s.rpmap
       THEN [s EXCEPT !.panicked = TRUE]
       ELSE [s EXCEPT !.pmap = MapInsert(@, pid, parent),
                      !.rpmap[ancestor] = Append(@, pid)]

\* handle_pid_event, NOTE_CHILD of pid, forked by parent.
note_child(s, pid, parent) ==
    LET ancestor == pid_ancestor(s.pmap, parent)
    IN IF ancestor \notin DOMAIN s.rpmap
       THEN [s EXCEPT !.panicked = TRUE]
       ELSE [s EXCEPT !.pmap = MapInsert(@, pid, ancestor),
                      !.rpmap[ancestor] = Append(@, pid)]

\* ProcessRunner::handle_pid_event
handle_pid_event(s, event) ==
    IF "NOTE_EXIT" \in event.fflags
    THEN note_exit(s, event.ident, event.data)
    ELSE IF "NOTE_CHILD" \in event.fflags
    THEN note_child(s, event.ident, event.data)
    ELSE s

\* ----------------------------------------------- handle_control_stream_cmd
\* The methods the control client sends.
Methods == {"exec", "run_main", "start", "write_hosts"}

\* models::network::HostEntry values and the entry lists a client sends.
HostEntry(ip_addr, hostname) == [ip_addr |-> ip_addr, hostname |-> hostname]
HostLists ==
    { <<HostEntry("10.0.0.2", "a")>>,
      <<HostEntry("10.0.0.3", "b"), HostEntry("10.0.0.2", "a")>> }

\* The lines the write_hosts handler writes for `entries`, in order:
\* format "{} {}" of ip_addr and hostname after the two localhost lines.
hosts_lines(entries) ==
    <<"::1 localhost", "127.0.0.1 localhost">>
      \o [k \in 1..Len(entries) |-> entries[k].ip_addr \o " " \o entries[k].hostname]

\* The lines of `lines` whose write succeeded (ok[k]), in order.
RECURSIVE Written(_, _)
Written(lines, ok) ==
    IF lines = <<>> THEN <<>>
    ELSE (IF Head(ok) THEN <<Head(lines)>> ELSE <<>>) \o Written(Tail(lines), Tail(ok))

\* A write_hosts that opens the file without `truncate(true)` and appends.
\* The hosts rule (C20) must tell it from the code's.
write_hosts_no_truncate(old, entries, opened, ok) ==
    IF opened THEN old \o Written(hosts_lines(entries), ok) ELSE old

\* The file after the write_hosts handler: opened with write, truncate and
\* create, then one writeln! per line, the result of each discarded.
write_hosts(old, entries, opened, ok) ==
    IF opened THEN Written(hosts_lines(entries), ok) ELSE old

\* crate::util::gen_id for the n-th request: an id no other process carries.
gen_id(n) == "x" \o ToString(n)

\* ipc::proto::write_response and send_packet: the response to request
\* (method, n) with the given status.
Response(method, n, status) == [method |-> method, n |-> n, status |-> status]

\* ProcessRunner::handle_control_stream_cmd for request n, its spawn (if
\* any) returning `outcome`.
handle_control_stream_cmd(method, request, outcome) ==
    IF method = "exec"
    THEN /\ spawn_process(gen_id(request.n), Jexec("exec", request.n), Some(request.n), outcome)
         /\ responses' = Append(responses,
                Response(method, request.n, IF outcome = "Ok" THEN 0 ELSE EIO))
         /\ UNCHANGED <<clock, started, spawn_queue, inits, hosts, hosts_io>>
    ELSE IF method = "run_main"
    THEN /\ spawn_queue' = run_main(spawn_queue)
         /\ responses' = IF IsSome(container.main_proto)
                         THEN responses
                         ELSE Append(responses, Response(method, request.n, 0))
         /\ no_spawn
         /\ UNCHANGED <<clock, started, inits, hosts, hosts_io>>
    ELSE IF method = "start"
    THEN /\ start(outcome)
         /\ responses' = Append(responses, Response(method, request.n, 0))
         /\ UNCHANGED <<hosts, hosts_io>>
    ELSE IF method = "write_hosts"
    THEN /\ \E opened \in BOOLEAN :
            \E ok \in [1..Len(hosts_lines(request.data)) -> BOOLEAN] :
               /\ hosts' = write_hosts(hosts, request.data, opened, ok)
               /\ hosts_io' = Some([entries |-> request.data, opened |-> opened,
                                    failed |-> { k \in DOMAIN ok : opened /\ ~ok[k] }])
         /\ responses' = Append(responses, Response(method, request.n, 0))
         /\ no_spawn
         /\ UNCHANGED <<clock, started, spawn_queue, inits>>
    ELSE /\ no_spawn
         /\ UNCHANGED <<clock, started, spawn_queue, inits, responses, hosts, hosts_io>>

\* ------------------------------------------------------ ProcessRunner::run
\* kevent_ts has returned, or returns now: the loop is at the kevent call
\* with events pending, or inside the batch a call returned.
Returned ==
    IF pc = "loop" THEN spawn_queue = <<>> /\ kq # <<>> ELSE pc = "dispatch"

\* The events of the batch not yet handled: of a call that returns now, the
\* pending events that fit the event buffer.
Left ==
    IF pc = "dispatch" THEN nev
    ELSE IF Len(kq) < MaxEvents THEN Len(kq) ELSE MaxEvents

\* The event the loop handles next.
Event == Head(kq)

\* run, `sender.send_if_modified` before kevent_ts: a step that ends at the
\* kevent call has published the manifest.
publish_when_waiting ==
    published' = IF pc' = "loop" /\ spawn_queue' = <<>>
                 THEN serialized(container')
                 ELSE published

\* A cleanup that gives up when jail.kill() fails, before the notify. The
\* cleanup rule (C11) must tell it from the code's.
cleanup_fails_with_kill ==
    /\ pc' = "done"
    /\ nev' = 0
    /\ clock' = clock + 1
    /\ container' = [container EXCEPT !.destroyed = Some(clock + 1)]
    /\ published' = serialized(container')
    /\ UNCHANGED <<spawn_errors, hosts, hosts_io, ppid, units>>
    /\ \E killed \in BOOLEAN :
          /\ alive' = IF killed THEN {} ELSE alive
          /\ effects' = effects \o (IF killed
                                     THEN <<"set_destroyed", "publish", "jail_kill_ok", "notify">>
                                     ELSE <<"set_destroyed", "publish", "jail_kill_err">>)

\* ProcessRunner::cleanup; jail.kill() may fail, which is only logged.
cleanup ==
    /\ pc' = "done"
    /\ nev' = 0
    /\ clock' = clock + 1
    /\ container' = [container EXCEPT !.destroyed = Some(clock + 1)]
    /\ published' = serialized(container')
    /\ UNCHANGED <<spawn_errors, hosts, hosts_io, ppid, units>>
    /\ \E killed \in BOOLEAN :
          /\ alive' = IF killed THEN {} ELSE alive
          /\ effects' = effects \o <<"set_destroyed", "publish",
                                     IF killed THEN "jail_kill_ok" ELSE "jail_kill_err",
                                     "notify">>

\* The next event of the batch, or the next iteration of the loop.
next_event ==
    /\ kq' = Tail(kq)
    /\ nev' = Left - 1
    /\ pc' = IF Left = 1 THEN "loop" ELSE "dispatch"

\* After an event of the batch: `break 'kq` and the cleanup that follows
\* the loop, or next_event.
after_event(brk) ==
    IF brk
    THEN /\ kq' = Tail(kq)
         /\ cleanup
    ELSE /\ next_event
         /\ UNCHANGED <<container, clock, alive, effects, spawn_errors, hosts, hosts_io, ppid, units>>
         /\ publish_when_waiting

\* run, before the loop: register the kill event, start if auto_start.
Entry ==
    /\ pc = "entry"
    /\ pc' = "loop"
    /\ kill_knote' = "added"
    /\ \E outcome \in SpawnOutcomes :
          IF auto_start
          THEN start(outcome)
          ELSE /\ no_spawn
               /\ UNCHANGED <<clock, started, spawn_queue, inits>>
    /\ UNCHANGED <<container, auto_start, pmap, main_started, main_exited,
                   deinits, last_deinit, nev, kq, timer, timer_arms, reqs,
                   responses, forks, effects, spawn_errors, hosts, hosts_io, ppid, units>>
    /\ publish_when_waiting

\* run, `while let Some((id, process)) = self.spawn_queue.pop_front()`: one spawn.
SpawnQueued ==
    /\ pc = "loop"
    /\ spawn_queue # <<>>
    /\ \E outcome \in SpawnOutcomes :
          /\ spawn_process(Head(spawn_queue).id, Head(spawn_queue).exec, None, outcome)
          /\ main_started' = (main_started \/ (Head(spawn_queue).id = "main" /\ outcome = "Ok"))
          /\ spawn_errors' = IF outcome = "Ok"
                             THEN spawn_errors
                             ELSE spawn_errors \cup {Head(spawn_queue).id}
    /\ spawn_queue' = Tail(spawn_queue)
    /\ UNCHANGED <<container, auto_start, pmap, started, main_exited, inits,
                   deinits, pc, last_deinit, nev, kq, timer, timer_arms,
                   kill_knote, reqs, responses, forks, clock, effects,
                   hosts, hosts_io, ppid, units>>
    /\ publish_when_waiting

\* run, EventFilter::EVFILT_PROC. A panic of the handler ends the thread.
DispatchProc ==
    /\ Returned
    /\ Event.filter = "proc"
    /\ \E s \in {handle_pid_event(RunnerState, Event)} :
          /\ named_process' = s.named_process
          /\ pmap' = s.pmap
          /\ rpmap' = s.rpmap
          /\ inits' = s.inits
          /\ deinits' = s.deinits
          /\ spawn_queue' = s.spawn_queue
          /\ last_deinit' = s.last_deinit
          /\ timer' = s.timer
          /\ timer_arms' = s.timer_arms
          /\ main_exited' = s.main_exited
          /\ notified' = s.notified
          /\ IF s.panicked
             THEN /\ pc' = "panicked"
                  /\ UNCHANGED <<nev, kq, container, clock, alive, io, ppid, units>>
             ELSE after_event(s.ret)
    /\ UNCHANGED <<auto_start, started, main_started, next_pid, kill_knote,
                   reqs, responses, forks>>

\* run, EventFilter::EVFILT_TIMER
DispatchTimer ==
    /\ Returned
    /\ Event.filter = "timer"
    /\ UNCHANGED <<auto_start, named_process, pmap, rpmap, started,
                   main_started, main_exited, spawn_queue, inits, deinits,
                   last_deinit, next_pid, timer, timer_arms, kill_knote, reqs,
                   responses, forks, notified>>
    /\ after_event(TRUE)

\* run, EventFilter::EVFILT_READ with a complete request on the stream.
DispatchRead ==
    /\ Returned
    /\ Event.filter = "read"
    /\ \E outcome \in SpawnOutcomes :
          handle_control_stream_cmd(Unwrap(Event.req).method, Unwrap(Event.req), outcome)
    /\ next_event
    /\ UNCHANGED <<container, auto_start, pmap, main_started, main_exited,
                   deinits, last_deinit, timer, timer_arms, kill_knote, reqs,
                   forks, effects, spawn_errors, ppid, units>>
    /\ publish_when_waiting

\* run, EventFilter::EVFILT_USER. The one-shot event is gone once delivered.
DispatchUser ==
    /\ Returned
    /\ Event.filter = "user"
    /\ kill_knote' = "gone"
    /\ IF container.deinit_norun \/ is_empty(deinits)
       THEN /\ UNCHANGED <<deinits, spawn_queue>>
            /\ after_event(TRUE)
       ELSE /\ deinits' = try_drain_proc_queue(activate(deinits), "", spawn_queue).q
            /\ spawn_queue' = try_drain_proc_queue(activate(deinits), "", spawn_queue).next
            /\ after_event(FALSE)
    /\ UNCHANGED <<auto_start, named_process, pmap, rpmap, started,
                   main_started, main_exited, inits, last_deinit, next_pid,
                   timer, timer_arms, reqs, responses, forks, notified>>

\* ------------------------------------------------- kernel and environment
\* The loop reads the kernel only through kevent (and the pid of a spawn), so
\* a step of the environment taken while the loop is busy is the same step
\* taken when the loop next blocks in kevent: the environment moves there.
ExitCodes == {0}
Blocked == pc = "loop" /\ spawn_queue = <<>> /\ Len(kq) < MaxPending

\* Process pid of the jail exits with a status of `codes`: its knote
\* reports NOTE_EXIT with the status.
ExitWith(pid, codes) ==
    /\ Blocked
    /\ pid \in alive
    /\ alive' = alive \ {pid}
    /\ \E code \in codes : kq' = Append(kq, ProcEvent(pid, "NOTE_EXIT", code))
    /\ UNCHANGED <<container, auto_start, named_process, pmap, rpmap, started,
                   main_started, main_exited, spawn_queue, inits, deinits, pc,
                   last_deinit, nev, next_pid, timer, timer_arms, kill_knote,
                   reqs, responses, forks, notified, clock, io, ppid, units>>

Exit(pid) == ExitWith(pid, ExitCodes)

ProcExit == \E pid \in 1..MaxPid : Exit(pid)

\* A process of the jail exits with a failure status.
FailCodes == {1}
ProcFail == \E pid \in 1..MaxPid : ExitWith(pid, FailCodes)

\* A traced process forks: the child is traced too and its knote reports
\* NOTE_CHILD with the parent's pid.
ProcFork ==
    /\ Blocked
    /\ forks < MaxFork
    /\ next_pid <= MaxPid
    /\ forks' = forks + 1
    /\ \E parent \in alive :
          /\ kq' = Append(kq, ProcEvent(next_pid, "NOTE_CHILD", parent))
          /\ ppid' = MapInsert(ppid, next_pid, parent)
    /\ alive' = alive \cup {next_pid}
    /\ next_pid' = next_pid + 1
    /\ UNCHANGED <<container, auto_start, named_process, pmap, rpmap, started,
                   main_started, main_exited, spawn_queue, inits, deinits, pc,
                   last_deinit, nev, timer, timer_arms, kill_knote, reqs,
                   responses, notified, clock, io, units>>

\* The grace timer expires.
TimerFire ==
    /\ Blocked
    /\ timer = "armed"
    /\ timer' = "off"
    /\ kq' = Append(kq, TimerEvent)
    /\ UNCHANGED <<container, auto_start, named_process, pmap, rpmap, started,
                   main_started, main_exited, spawn_queue, inits, deinits, pc,
                   last_deinit, nev, alive, next_pid, timer_arms, kill_knote,
                   reqs, responses, forks, notified, clock, io, ppid, units>>

\* ProcessRunner::kill: NOTE_TRIGGER on the registered user event.
UserKill ==
    /\ Blocked
    /\ kill_knote = "added"
    /\ kill_knote' = "triggered"
    /\ kq' = Append(kq, UserEvent)
    /\ UNCHANGED <<container, auto_start, named_process, pmap, rpmap, started,
                   main_started, main_exited, spawn_queue, inits, deinits, pc,
                   last_deinit, nev, alive, next_pid, timer, timer_arms, reqs,
                   responses, forks, notified, clock, io, ppid, units>>

\* The control client sends a request: the stream becomes readable.
ControlRequest ==
    /\ Blocked
    /\ reqs < MaxReq
    /\ reqs' = reqs + 1
    /\ \E method \in Methods \ {"write_hosts"} :
          kq' = Append(kq, ReadEvent(method, reqs + 1, <<>>))
    /\ UNCHANGED <<container, auto_start, named_process, pmap, rpmap, started,
                   main_started, main_exited, spawn_queue, inits, deinits, pc,
                   last_deinit, nev, alive, next_pid, timer, timer_arms,
                   kill_knote, responses, forks, notified, clock, io, ppid, units>>

\* A client sends a write_hosts request with a list of host entries.
HostsRequest ==
    /\ Blocked
    /\ reqs < MaxReq
    /\ reqs' = reqs + 1
    /\ \E entries \in HostLists :
          kq' = Append(kq, ReadEvent("write_hosts", reqs + 1, entries))
    /\ UNCHANGED <<container, auto_start, named_process, pmap, rpmap, started,
                   main_started, main_exited, spawn_queue, inits, deinits, pc,
                   last_deinit, nev, alive, next_pid, timer, timer_arms,
                   kill_knote, responses, forks, notified, clock, io, ppid, units>>

\* run, `kevent_ts(..)` returns Err: `nevx.unwrap()` panics and the
\* supervisor thread unwinds out of run.
KeventError ==
    /\ pc = "loop"
    /\ spawn_queue = <<>>
    /\ pc' = "panicked"
    /\ UNCHANGED <<container, auto_start, named_process, pmap, rpmap, started,
                   main_started, main_exited, spawn_queue, inits, deinits,
                   last_deinit, nev, alive, next_pid, kq, timer, timer_arms,
                   kill_knote, reqs, responses, forks, notified, clock, io, ppid, units>>

\* The steps of the supervisor thread, and those of its environment.
Loop ==
    \/ Entry
    \/ SpawnQueued
    \/ DispatchProc
    \/ DispatchTimer
    \/ DispatchRead
    \/ DispatchUser

Next ==
    \/ Loop
    \/ ProcExit
    \/ ProcFork
    \/ TimerFire
    \/ UserKill
    \/ ControlRequest

Spec == Init /\ [][Next]_vars

\* The same, on a kernel whose kevent may fail.
NextKq ==
    \/ Next
    \/ KeventError

SpecKq == Init /\ [][NextKq]_vars

\* The same as Next, with processes that also fail.
NextCodes ==
    \/ Next
    \/ ProcFail

\* The containers exit statuses are checked on: started at once, with a
\* main spec, at most one init spec and one deinit spec.
InitCodes ==
    /\ Init
    /\ auto_start
    /\ ~container.linux
    /\ Len(container.init_proto) <= 1
    /\ IsSome(container.main_proto)
    /\ Len(container.deinit_proto) = 1
    /\ ~container.init_norun
    /\ ~container.main_norun

SpecCodes == InitCodes /\ [][NextCodes]_vars

\* The same as Next, with clients that also send write_hosts.
NextHosts ==
    \/ Next
    \/ HostsRequest

\* The containers write_hosts is checked on: started at once, one main and
\* one deinit spec, flags as the client sets them.
InitHosts ==
    /\ Init
    /\ auto_start
    /\ ~container.linux
    /\ container.init_proto = <<>>
    /\ IsSome(container.main_proto)
    /\ Len(container.deinit_proto) = 1
    /\ ~container.init_norun
    /\ ~container.main_norun

SpecHosts == InitHosts /\ [][NextHosts]_vars

\* ============================================================== properties
\* The named processes, by position in the list.
StatIdx == 1..Len(named_process)

\* The ids a serial queue mints for its specs.
QueueIds(base_id, execs) == { MintId(base_id, k - 1) : k \in 1..Len(execs) }
InitIds == QueueIds("init", container.init_proto)
DeinitIds == QueueIds("deinit", container.deinit_proto)
\* The ids the `exec` control method spawns under.
ExecIds == { gen_id(n) : n \in 1..MaxReq }

\* Named processes with an id of Q whose direct child has not exited.
LiveDirect(Q) ==
    { i \in StatIdx : named_process[i].id \in Q /\ named_process[i].pid \in alive }

\* This step is the loop handling the event at the head of the batch.
Handling(filter) ==
    /\ Returned
    /\ Event.filter = filter
    /\ kq' = Tail(kq)

\* The loop handles NOTE_EXIT of the direct child of a named process in this step.
DirectExitOf(ids) ==
    /\ Handling("proc")
    /\ "NOTE_EXIT" \in Event.fflags
    /\ \E i \in StatIdx :
          named_process[i].pid = Event.ident /\ named_process[i].id \in ids

\* The loop handles control request `method` in this step.
Handles(method) ==
    /\ Handling("read")
    /\ Unwrap(Event.req).method = method

\* The loop handles the user-kill event in this step.
HandlesUserKill == Handling("user")

\* How many entries of the spawn queue q carry id.
RECURSIVE Count(_, _)
Count(q, id) ==
    IF q = <<>> THEN 0
    ELSE (IF Head(q).id = id THEN 1 ELSE 0) + Count(Tail(q), id)

\* ------------------------------------------------------------------- C1
\* C1 (Serialization): in every reachable state, for the init queue and for
\* the deinit queue, at most one process spawned from that queue has a
\* direct child that has not yet exited.
C1_Serialization ==
    /\ Cardinality(LiveDirect(InitIds)) <= 1
    /\ Cardinality(LiveDirect(DeinitIds)) <= 1

\* ------------------------------------------------------------------- C2
\* C2 (Init gating): a step of the lifecycle (start() or the exit handler,
\* i.e. any step but a `run_main` request) enqueues main only when no init
\* spec is undispatched and the direct child of the most recently
\* dispatched init process is no longer alive.
LastInitAlive ==
    /\ IsSome(inits.last_spawn)
    /\ LiveDirect({Unwrap(inits.last_spawn)}) # {}

C2_InitGating ==
    [][(Count(spawn_queue', "main") > Count(spawn_queue, "main") /\ ~Handles("run_main"))
         => (is_empty(inits) /\ ~LastInitAlive)]_vars

\* ------------------------------------------------------------------- C3
\* C3 (ad-hoc exits): handling the direct-child exit of a process spawned by
\* the `exec` control method pops no spec from the init or deinit queue and
\* pushes nothing (no spec, no main) onto the spawn queue.
C3_AdHocExitInert ==
    [][DirectExitOf(ExecIds)
         => (inits' = inits /\ deinits' = deinits /\ spawn_queue' = spawn_queue)]_vars

\* ------------------------------------------------------------------- C4
\* C4 (main tree exit): in the step that records the tree exit of `main`, a
\* deinit spec is dispatched only if deinit_norun is false, the deinit queue
\* is non-empty and persist is false; and the loop breaks exactly when
\* (deinit_norun or the deinit queue is empty) and persist is false.
MainTreeExit ==
    \E i \in StatIdx :
       /\ named_process[i].id = "main"
       /\ ~named_process[i].tree_exited
       /\ Len(named_process') = Len(named_process)
       /\ named_process'[i].tree_exited

C4_MainTreeExit ==
    [][MainTreeExit =>
         /\ (Len(deinits'.execs) < Len(deinits.execs)
                => (~container.deinit_norun /\ ~is_empty(deinits) /\ ~container.persist))
         /\ ((pc' = "done")
                <=> ((container.deinit_norun \/ is_empty(deinits)) /\ ~container.persist))]_vars

\* ------------------------------------------------------------------- C5
\* C5 (Persist): with persist set, the loop has ended and cleanup has run
\* only if the user-kill event has been delivered to the loop.
C5_PersistNeedsKill ==
    (container.persist /\ pc = "done") => kill_knote = "gone"

\* ------------------------------------------------------------------ C10
\* C10 (id uniqueness): no two entries of the named-process list carry the
\* same id; in particular `main` is spawned at most once.
C10_UniqueIds ==
    \A i, j \in StatIdx : i # j => named_process[i].id # named_process[j].id
\* ------------------------------------------------------------------- C8
\* C8 as stated (user-kill): handling the user-kill event breaks the loop and
\* runs cleanup if deinit_norun is set or the deinit queue is empty;
\* otherwise it activates the deinit queue, pushes deinit.0 for spawn and
\* does not break.
Deinit0 == [id |-> MintId("deinit", 0), exec |-> Head(container.deinit_proto)]

C8_UserKillAsStated ==
    [][HandlesUserKill =>
         IF container.deinit_norun \/ is_empty(deinits)
         THEN pc' = "done" /\ IsSome(container'.destroyed)
         ELSE /\ deinits'.activated
              /\ pc' # "done"
              /\ spawn_queue' = Append(spawn_queue, Deinit0)]_vars

\* C8, amended: as above, but in the second case deinit.0 is pushed only if
\* no deinit spec has been dispatched yet; if one has, nothing is pushed and
\* the deinit queue keeps its specs.
C8_UserKill ==
    [][HandlesUserKill =>
         IF container.deinit_norun \/ is_empty(deinits)
         THEN pc' = "done" /\ IsSome(container'.destroyed)
         ELSE /\ deinits'.activated
              /\ pc' # "done"
              /\ IF deinits.last_spawn = None
                 THEN spawn_queue' = Append(spawn_queue, Deinit0)
                 ELSE spawn_queue' = spawn_queue /\ deinits'.execs = deinits.execs]_vars

\* The user-kill event has been handled without a break, after main's tree
\* exit had dispatched deinit.0, with a deinit spec still undispatched.
C8_Witness ==
    /\ kill_knote = "gone"
    /\ pc = "loop"
    /\ ~container.deinit_norun
    /\ main_exited
    /\ deinits.activated
    /\ deinits.idx = 1
    /\ ~is_empty(deinits)

\* ------------------------------------------------------------------- C9
\* C9 (started uniqueness): once set, `started` never changes; a `start`
\* request handled when `started` is set spawns nothing, enqueues nothing
\* and leaves both serial queues unchanged.
C9_StartedOnce ==
    [][/\ IsSome(started) => started' = started
       /\ (Handles("start") /\ IsSome(started))
            => /\ named_process' = named_process
               /\ spawn_queue' = spawn_queue
               /\ inits' = inits
               /\ deinits' = deinits]_vars

\* Two `start` requests have been answered: the second start() found
\* `started` set.
C9_Witness ==
    /\ IsSome(started)
    /\ Cardinality({ i \in 1..Len(responses) : responses[i].method = "start" }) = 2
\* ------------------------------------------------------------------- C6
\* The happy-path scenario: no init, a main, no deinit, persist off,
\* auto_start on; the client may send requests, nobody asks for a kill.
InitHappy ==
    /\ Init
    /\ auto_start
    /\ container.init_proto = <<>>
    /\ IsSome(container.main_proto)
    /\ container.deinit_proto = <<>>
    /\ ~container.persist

NextHappy ==
    \/ Entry
    \/ SpawnQueued
    \/ DispatchProc
    \/ DispatchRead
    \/ ProcExit
    \/ ProcFork
    \/ ControlRequest

\* The processes of the tree of a named process `main`.
InMainTree(pid) ==
    \E i \in StatIdx :
       named_process[i].id = "main" /\ pid_ancestor(pmap, pid) = named_process[i].pid

\* The supervisor thread keeps running, and every process of main's tree
\* eventually exits.
SpecHappy ==
    /\ InitHappy
    /\ [][NextHappy]_vars
    /\ WF_vars(Loop)
    /\ \A pid \in 1..MaxPid : WF_vars(InMainTree(pid) /\ Exit(pid))

\* C6 (happy path): once main is spawned, eventually its exit code is
\* recorded, its tree-exit flag is set, the loop has terminated and cleanup
\* has set `destroyed`.
C6_HappyPath ==
    (\E i \in StatIdx : named_process[i].id = "main")
      ~> /\ pc = "done"
         /\ IsSome(container.destroyed)
         /\ \E i \in StatIdx :
               /\ named_process[i].id = "main"
               /\ IsSome(named_process[i].exit_code)
               /\ named_process[i].tree_exited

\* The happy path has run to its end, through a fork of main.
C6_Witness ==
    /\ auto_start /\ ~container.main_norun
    /\ pc = "done"
    /\ IsSome(container.destroyed)
    /\ forks = 1
    /\ Len(named_process) = 1
    /\ named_process[1].id = "main"
    /\ named_process[1].exit_code = Some(0)
    /\ named_process[1].tree_exited

\* ------------------------------------------------------------------- C7
\* Containers with deinit specs and a main, started at loop entry; the
\* supervisor thread keeps running and an armed timer eventually fires.
InitGrace ==
    /\ Init
    /\ auto_start
    /\ container.deinit_proto # <<>>
    /\ IsSome(container.main_proto)

SpecGrace ==
    /\ InitGrace
    /\ [][Next]_vars
    /\ WF_vars(Loop)
    /\ WF_vars(TimerFire)

FinalDeinitId == MintId("deinit", Len(container.deinit_proto) - 1)

\* C7 (deinit grace): the timer is registered in exactly the steps that
\* handle the direct-child exit of the final deinit spec; the timer event
\* ends the loop; and once the final deinit's direct child has exited the
\* loop eventually terminates.
C7_DeinitGrace ==
    /\ [][/\ (timer_arms' # timer_arms) <=> DirectExitOf({FinalDeinitId})
          /\ (timer_arms' # timer_arms) => (timer_arms' = timer_arms + 1 /\ timer' = "armed")
          /\ Handling("timer") => pc' = "done"]_vars
    /\ (\E i \in StatIdx : /\ named_process[i].id = FinalDeinitId
                            /\ IsSome(named_process[i].exit_code))
         ~> (pc = "done")

\* The loop has ended at the timer event: the final deinit's direct child
\* has exited, its tree has not.
C7_Witness ==
    /\ pc = "done"
    /\ timer_arms = 1
    /\ timer = "off"
    /\ kq = <<>>
    /\ kill_knote # "gone"
    /\ \E i \in StatIdx : /\ named_process[i].id = FinalDeinitId
                           /\ IsSome(named_process[i].exit_code)
                           /\ ~named_process[i].tree_exited

\* ------------------------------------------------------------------ C11
\* C11 (cleanup): while the loop runs `destroyed` is unset, in the container
\* and in the published manifest, and cleanup has done nothing; once the loop
\* has exited cleanup has, once and in this order, set `destroyed`,
\* published the manifest showing it, issued jail-kill and fired the
\* destroyed-notify, also when jail-kill returned an error.
C11_Cleanup ==
    IF pc = "done"
    THEN /\ IsSome(container.destroyed)
         /\ published = serialized(container)
         /\ \/ effects = <<"set_destroyed", "publish", "jail_kill_ok", "notify">>
            \/ effects = <<"set_destroyed", "publish", "jail_kill_err", "notify">>
    ELSE /\ container.destroyed = None
         /\ published.destroyed = None
         /\ effects = <<>>

\* Cleanup has run with a failing jail-kill.
C11_Witness ==
    /\ pc = "done"
    /\ Len(effects) = 4
    /\ effects[3] = "jail_kill_err"
    /\ effects[4] = "notify"

\* ------------------------------------------------------------------ C12
\* C12 (kevent error): when the supervisor thread has left the loop because
\* the wait on the kernel event queue failed, cleanup has run: `destroyed` is
\* set and published, jail-kill has been issued and the destroyed-notify
\* has been fired.
C12_KeventErrorCleansUp ==
    pc = "panicked"
      => /\ IsSome(container.destroyed)
         /\ published = serialized(container)
         /\ \E i \in 1..Len(effects) : effects[i] \in {"jail_kill_ok", "jail_kill_err"}
         /\ \E i \in 1..Len(effects) : effects[i] = "notify"

\* ------------------------------------------------------------------ C13
\* C13 (notify on spawn failure): whenever an `exec` request has been
\* answered EIO, i.e. its spawn, called with a notify handle, returned an
\* error of any kind, that notify handle has been fired.
C13_NotifyOnSpawnFailure ==
    \A i \in 1..Len(responses) :
       (responses[i].method = "exec" /\ responses[i].status = EIO)
         => responses[i].n \in notified

\* ------------------------------------------------------------------ C14
\* C14 (main spawn failure): once the queued spawn of main has failed, the
\* container goes on as if main were gone, with no user kill needed:
\* eventually the loop has terminated and cleanup has run, or a deinit spec
\* has been dispatched.
C14_MainSpawnFailure ==
    ("main" \in spawn_errors)
      ~> \/ pc = "done" /\ IsSome(container.destroyed)
         \/ IsSome(deinits.last_spawn)

\* ------------------------------------------------------------------ C20
\* /etc/hosts is the two localhost lines followed by one "<ip> <hostname>"
\* line per entry of `entries`, in order, and nothing else.
HostsFileOf(entries) ==
    /\ Len(hosts) = 2 + Len(entries)
    /\ hosts[1] = "::1 localhost"
    /\ hosts[2] = "127.0.0.1 localhost"
    /\ \A k \in 1..Len(entries) :
          hosts[2 + k] = entries[k].ip_addr \o " " \o entries[k].hostname

C15_OneResponse ==
    [][\A method \in Methods :
          Handles(method) =>
            /\ Len(responses') = Len(responses) + 1
            /\ SubSeq(responses', 1, Len(responses)) = responses
            /\ responses'[Len(responses')].n = Unwrap(Event.req).n
            /\ responses'[Len(responses')].method = method
            /\ method = "run_main" =>
                  /\ responses'[Len(responses')].status = 0
                  /\ Count(spawn_queue', "main") =
                       Count(spawn_queue, "main")
                         + (IF IsSome(container.main_proto) THEN 1 ELSE 0)]_vars

\* ------------------------------------------------------------------ C16
\* The pids the registry records as live: the members of the rpmap lists.
LivePids == UNION { { rpmap[a][k] : k \in 1..Len(rpmap[a]) } : a \in DOMAIN rpmap }

\* C16 as stated (attribution): for every pid p recorded live in the
\* registry, ancestor(p) is the pid of a named process whose direct child is
\* still alive, i.e. whose own exit has not been handled.
C16_AttributionAsStated ==
    \A p \in LivePids :
       \E i \in StatIdx :
          /\ named_process[i].pid = pid_ancestor(pmap, p)
          /\ named_process[i].exit_code = None

\* C16 (attribution), amended: for every pid p recorded live in the
\* registry, ancestor(p) is the pid of a named process whose tree has not
\* exited yet; its direct child may be gone already.
C16_Attribution ==
    \A p \in LivePids :
       \E i \in StatIdx :
          /\ named_process[i].pid = pid_ancestor(pmap, p)
          /\ ~named_process[i].tree_exited

\* A descendant outlives the direct child of its named process: the direct
\* child's exit has been handled and the descendant is still recorded.
C16_Witness ==
    \E p \in LivePids :
       \E i \in StatIdx :
          /\ p \in DOMAIN pmap
          /\ named_process[i].pid = pmap[p]
          /\ IsSome(named_process[i].exit_code)
          /\ ~named_process[i].tree_exited

\* ------------------------------------------------------------------ C17
\* The pids of the named processes.
NamedPids == { named_process[i].pid : i \in StatIdx }

\* C17 (registry consistency): every pid in rpmap[a] is a or is led to a by
\* pmap; every value of pmap is the pid of a named process and is not a key
\* of pmap, so that the ancestor of a pid is at most one lookup away.
C17_Registry ==
    /\ \A a \in DOMAIN rpmap :
          \A k \in 1..Len(rpmap[a]) :
             \/ rpmap[a][k] = a
             \/ rpmap[a][k] \in DOMAIN pmap /\ pid_ancestor(pmap, rpmap[a][k]) = a
    /\ \A p \in DOMAIN pmap :
          /\ pmap[p] \in NamedPids
          /\ pmap[p] \notin DOMAIN pmap
          /\ pid_ancestor(pmap, p) = pmap[p]

\* A grandchild is registered: a pid forked by a process that is not a named
\* process is in the list of the named process at the root of its tree.
C17_Witness ==
    \E g \in DOMAIN pmap :
       /\ g \in DOMAIN ppid
       /\ ppid[g] \in DOMAIN pmap
       /\ ppid[g] \notin NamedPids
       /\ pmap[g] = pmap[ppid[g]]
       /\ \E k \in 1..Len(rpmap[pmap[g]]) : rpmap[pmap[g]][k] = g

\* ------------------------------------------------------------------ C18
\* pid is in the list seq.
InList(seq, pid) == \E k \in 1..Len(seq) : seq[k] = pid

\* C18 (tree-exit accounting): the pid of a named process is in its own
\* rpmap list as long as its exit has not been handled; the tree-exit flag
\* is set, and the exit-notify of the process fired, only when its rpmap
\* list is empty, its own exit handled and no pid attributed to it any
\* more; the tree exit of a named process is signalled at most once.
C18_TreeExit ==
    \A i \in StatIdx :
       LET stat == named_process[i]
       IN /\ stat.pid \in DOMAIN rpmap
          /\ stat.exit_code = None => InList(rpmap[stat.pid], stat.pid)
          /\ stat.tree_exited =>
                /\ rpmap[stat.pid] = <<>>
                /\ IsSome(stat.exit_code)
                /\ \A p \in DOMAIN pmap : pmap[p] # stat.pid
          /\ (IsSome(stat.notify) /\ Unwrap(stat.notify) \in notified) => stat.tree_exited
          /\ stat.tree_signals = (IF stat.tree_exited THEN 1 ELSE 0)

\* The tree of a named process that had two descendants has exited, after
\* its direct child: the flag is set and the notify of the process fired.
C18_Witness ==
    \E i \in StatIdx :
       /\ named_process[i].tree_exited
       /\ named_process[i].tree_signals = 1
       /\ IsSome(named_process[i].notify)
       /\ Unwrap(named_process[i].notify) \in notified
       /\ \E c, g \in DOMAIN ppid :
             /\ ppid[c] = named_process[i].pid
             /\ ppid[g] = c
             /\ alive = {}

\* ------------------------------------------------------------------ C19
\* C19 (monotonicity): no step removes a named process, and once the exit
\* code or the tree-exit flag of a named process is set, no step clears or
\* changes it.
C19_Monotonic ==
    [][/\ Len(named_process') >= Len(named_process)
       /\ \A i \in StatIdx :
             /\ IsSome(named_process[i].exit_code) =>
                   named_process'[i].exit_code = named_process[i].exit_code
             /\ named_process[i].tree_exited => named_process'[i].tree_exited]_vars

\* A process has failed and its tree has exited, the exit of another process
\* with another status has been handled since, and the loop has seen a
\* control request and the user kill.
C19_Witness ==
    /\ \E i, j \in StatIdx :
          /\ i < j
          /\ named_process[i].exit_code = Some(1)
          /\ named_process[i].tree_exited
          /\ named_process[j].exit_code = Some(0)
    /\ responses # <<>>
    /\ kill_knote = "gone"

\* ------------------------------------------------------------------ C22
\* C22 (Running(Main) implies started): whenever a named process `main` has
\* been spawned and its tree has not exited yet, `started` is set.
C22_RunningMainStarted ==
    (\E i \in StatIdx : named_process[i].id = "main" /\ ~named_process[i].tree_exited)
      => IsSome(started)

\* ======================================================= SerialExec, alone
\* The longest spec list of a SerialExec run on its own.
MaxSpecs == 3

\* The base ids the supervisor gives its queues, and the ids of exited
\* processes a queue is asked about: its own, main's, the empty id.
BaseIds == {"init", "deinit"}
ExitedIds(base_id) == {"", "main"} \cup { MintId(base_id, k) : k \in 0..MaxSpecs }

\* SerialExec::pop_front is called.
PopFront ==
    /\ \E r \in {pop_front(serial)} :
          /\ serial' = r.q
          /\ dispatched' = IF IsSome(r.out)
                            THEN Append(dispatched, Unwrap(r.out))
                            ELSE dispatched
          /\ serial_call' = Some([op |-> "pop_front", id |-> "", q |-> serial,
                                  out |-> serial_out, ret |-> IsSome(r.out)])
    /\ UNCHANGED <<serial_out, runner, selector_unit, rdr_unit>>

\* SerialExec::activate is called.
Activate ==
    /\ ~serial.activated
    /\ serial' = activate(serial)
    /\ serial_call' = Some([op |-> "activate", id |-> "", q |-> serial,
                            out |-> serial_out, ret |-> FALSE])
    /\ UNCHANGED <<serial_out, dispatched, runner, selector_unit, rdr_unit>>

\* SerialExec::try_drain_proc_queue is called for an exited id.
TryDrain ==
    /\ \E id \in ExitedIds(serial.base_id) :
          \E r \in {try_drain_proc_queue(serial, id, serial_out)} :
             /\ serial' = r.q
             /\ serial_out' = r.next
             /\ dispatched' = dispatched \o SubSeq(r.next, Len(serial_out) + 1, Len(r.next))
             /\ serial_call' = Some([op |-> "try_drain", id |-> id, q |-> serial,
                                     out |-> serial_out, ret |-> r.drained])
    /\ UNCHANGED <<runner, selector_unit, rdr_unit>>

NextSerial ==
    \/ PopFront
    \/ Activate
    \/ TryDrain

\* The supervisor not running, next to the unit.
RunnerIdle ==
    /\ InitRunner
    /\ ~auto_start
    /\ container = CHOOSE c \in Containers : c.init_proto = <<>> /\ c.deinit_proto = <<>>

\* A queue as SerialExec::new returns it.
InitSerial ==
    /\ RunnerIdle
    /\ \E base_id \in BaseIds, len \in 0..MaxSpecs, activated \in BOOLEAN :
          serial = SerialExecNew(base_id, ProtoList(base_id, len), activated)
    /\ serial_out = <<>>
    /\ serial_call = None
    /\ dispatched = <<>>
    /\ SelectorIdle
    /\ RdrIdle

SpecSerial == InitSerial /\ [][NextSerial]_vars

\* Any queue state: any flag, any idx, any pending specs, any last_spawn.
InitDrain ==
    /\ RunnerIdle
    /\ \E base_id \in BaseIds, len \in 0..MaxSpecs, activated \in BOOLEAN,
          idx \in 0..MaxSpecs :
          \E last_spawn \in {None} \cup { Some(id) : id \in ExitedIds(base_id) } :
             serial = [base_id |-> base_id, idx |-> idx,
                       execs |-> ProtoList(base_id, len),
                       last_spawn |-> last_spawn, activated |-> activated]
    /\ serial_out \in {<<>>, <<[id |-> "main", exec |-> Jexec("main", 1)]>>}
    /\ serial_call = None
    /\ dispatched = <<>>
    /\ SelectorIdle
    /\ RdrIdle

SpecDrain == InitDrain /\ [][NextSerial]_vars

\* ------------------------------------------------------------------ C23
\* The queue and the out list are as they were before the last call.
NoChange(call) == serial = call.q /\ serial_out = call.out

\* C23 (try_drain, four cases): after a call of try_drain with exited id
\* `id` on queue q: not activated, or last_spawn set and different from id:
\* false, nothing changed; last_spawn = id and no spec pending: true,
\* nothing changed; otherwise false, and if a spec is pending its head has
\* been popped, given the id "<base>.<idx>", idx incremented, last_spawn set
\* to that id and (id, spec) appended to out, else nothing changed. True is
\* returned only when last_spawn is id and no spec is pending.
C23_TryDrain ==
    (IsSome(serial_call) /\ Unwrap(serial_call).op = "try_drain") =>
       LET call == Unwrap(serial_call)
           q == call.q
           minted == q.base_id \o "." \o ToString(q.idx)
       IN /\ call.ret => (q.last_spawn = Some(call.id) /\ q.execs = <<>>)
          /\ IF ~q.activated
             THEN ~call.ret /\ NoChange(call)
             ELSE IF q.last_spawn # None /\ q.last_spawn # Some(call.id)
             THEN ~call.ret /\ NoChange(call)
             ELSE IF q.last_spawn = Some(call.id) /\ q.execs = <<>>
             THEN call.ret /\ NoChange(call)
             ELSE IF q.execs # <<>>
             THEN /\ ~call.ret
                  /\ serial.execs = Tail(q.execs)
                  /\ serial.idx = q.idx + 1
                  /\ serial.last_spawn = Some(minted)
                  /\ serial.activated = q.activated
                  /\ serial.base_id = q.base_id
                  /\ serial_out = Append(call.out, [id |-> minted, exec |-> Head(q.execs)])
             ELSE ~call.ret /\ NoChange(call)

\* try_drain has just handed out a spec of an activated queue whose last
\* spawn was the exited id.
C23_Witness ==
    /\ IsSome(serial_call)
    /\ Unwrap(serial_call).op = "try_drain"
    /\ Unwrap(serial_call).q.activated
    /\ Unwrap(serial_call).q.last_spawn = Some(Unwrap(serial_call).id)
    /\ Len(serial_out) = Len(Unwrap(serial_call).out) + 1
    /\ serial.idx = Unwrap(serial_call).q.idx + 1

\* ------------------------------------------------------------------ C24
\* C24 (dispatch order): whatever the interleaving of pop_front, activate
\* and try_drain calls on a fresh queue, the specs handed out so far are a
\* prefix of the queue's list, each once and in order, the rest is still
\* pending, the k-th one (from 0) has id "<base>.<k>", idx is their number
\* and last_spawn names the latest one (none if nothing was handed out).
C24_DispatchOrder ==
    LET n == Len(dispatched)
    IN /\ [k \in 1..n |-> dispatched[k].exec] \o serial.execs
            = ProtoList(serial.base_id, n + Len(serial.execs))
       /\ \A k \in 1..n : dispatched[k].id = serial.base_id \o "." \o ToString(k - 1)
       /\ serial.idx = n
       /\ serial.last_spawn = (IF n = 0 THEN None ELSE Some(dispatched[n].id))

\* The whole list of a queue was handed out, the first spec by pop_front and
\* the last one by try_drain.
C24_Witness ==
    /\ Len(dispatched) = MaxSpecs
    /\ serial.execs = <<>>
    /\ serial_out # <<>>
    /\ Len(serial_out) < MaxSpecs
    /\ IsSome(serial_call)
    /\ Unwrap(serial_call).op = "try_drain"
    /\ Unwrap(serial_call).q.execs # <<>>

\* ------------------------------------------------------------------ C25
\* C25 (init_norun): in a container whose init_norun flag is set, no process
\* of the init queue is ever spawned or queued for spawn.
C25_InitNorun ==
    container.init_norun =>
       /\ \A i \in StatIdx : named_process[i].id \notin InitIds
       /\ \A k \in 1..Len(spawn_queue) : spawn_queue[k].id \notin InitIds

\* ------------------------------------------------------------------ C26
\* The direct child of a dispatched deinit process is alive.
DeinitRunning ==
    \E i \in StatIdx :
       /\ named_process[i].id \in DeinitIds
       /\ named_process[i].exit_code = None
       /\ named_process[i].pid \in alive

\* This step records the tree exit of the final deinit process.
FinalDeinitTreeExit ==
    \E i \in StatIdx :
       /\ named_process[i].id = FinalDeinitId
       /\ ~named_process[i].tree_exited
       /\ Len(named_process') = Len(named_process)
       /\ named_process'[i].tree_exited

\* C26 (deinit runs to completion): once a deinit spec has been dispatched
\* (and no spawn of a deinit spec has failed), the loop ends only in the
\* step that records the tree exit of the final deinit or handles the timer
\* event; while the direct child of a deinit
\* process is alive, the steps that record main's tree exit or handle a
\* user kill do not end the loop; and those steps do not queue a deinit
\* spec that was dispatched before.
C26_DeinitCompletes ==
    [][/\ (/\ IsSome(deinits.last_spawn)
           /\ spawn_errors \cap DeinitIds = {}
           /\ pc # "done"
           /\ pc' = "done")
            => (Handling("timer") \/ FinalDeinitTreeExit)
       /\ ((MainTreeExit \/ HandlesUserKill) /\ DeinitRunning) => pc' # "done"
       /\ (MainTreeExit \/ HandlesUserKill)
            => \A k \in 0..(deinits.idx - 1) :
                  Count(spawn_queue', MintId("deinit", k))
                    <= Count(spawn_queue, MintId("deinit", k))]_vars

\* ------------------------------------------------------------------ C27
\* C27 (tree exit implies exit code): a named process whose tree-exited flag
\* is set, or whose exit-notify has fired, has its exit code recorded; and
\* every ProcessStat its watch channel has published with the flag set
\* carries the exit code, so that the code is recorded first also when one
\* NOTE_EXIT is both the direct exit and the last exit of the tree.
C27_TreeExitHasCode ==
    \A i \in StatIdx :
       LET stat == named_process[i]
       IN /\ stat.tree_exited => IsSome(stat.exit_code)
          /\ (IsSome(stat.notify) /\ Unwrap(stat.notify) \in notified)
                => IsSome(stat.exit_code)
          /\ \A k \in 1..Len(stat.sent) :
                stat.sent[k].tree_exited => IsSome(stat.sent[k].exit_code)

\* One NOTE_EXIT was the direct exit and the tree exit of a process that
\* never forked: its channel published the exit code, then the flag, and
\* its notify has fired.
C27_Witness ==
    \E i \in StatIdx :
       /\ named_process[i].tree_exited
       /\ \A g \in DOMAIN ppid : ppid[g] # named_process[i].pid
       /\ Len(named_process[i].sent) = 2
       /\ ~named_process[i].sent[1].tree_exited
       /\ IsSome(named_process[i].sent[1].exit_code)
       /\ named_process[i].sent[2].tree_exited
       /\ IsSome(named_process[i].notify)
       /\ Unwrap(named_process[i].notify) \in notified

\* ============================================== MainAddressSelector, alone
\* Text is a sequence of characters. The longest network name.
MaxName == 3
NameChars == {"a", "b", "/"}

RECURSIVE Texts(_)
Texts(n) ==
    IF n = 0 THEN {<<>>}
    ELSE Texts(n - 1) \cup { Append(t, c) : t \in { u \in Texts(n - 1) : Len(u) = n - 1 },
                                             c \in NameChars }

\* std::net::IpAddr values (their octets) and their Display.
IpAddrs == { <<1, 2, 3, 4>>, <<9, 0, 0, 1>> }
Digit(d) == ToString(d)
ip_to_string(ip) ==
    <<Digit(ip[1]), ".", Digit(ip[2]), ".", Digit(ip[3]), ".", Digit(ip[4])>>

\* Result values.
Ok(value) == [ok |-> TRUE, value |-> value]
Err(error) == [ok |-> FALSE, value |-> error]

\* str::parse::<IpAddr>
parse_ip(val) ==
    IF \E ip \in IpAddrs : ip_to_string(ip) = val
    THEN Ok(CHOOSE ip \in IpAddrs : ip_to_string(ip) = val)
    ELSE Err("AddrParseError")

\* enum MainAddressSelector
Network(network) == [variant |-> "Network", value |-> network]
Ip(ip) == [variant |-> "Ip", value |-> ip]
Selectors ==
    { Network(name) : name \in Texts(MaxName) } \cup { Ip(ip) : ip \in IpAddrs }

\* impl Display for MainAddressSelector
to_string(sel) ==
    IF sel.variant = "Ip"
    THEN <<"i", "p", "a", "d", "d", "/">> \o ip_to_string(sel.value)
    ELSE <<"n", "e", "t", "w", "o", "r", "k", "/">> \o sel.value

\* str::split_once('/'): None, or the text before and after the first '/'.
split_once(input) ==
    IF \E k \in 1..Len(input) : input[k] = "/"
    THEN LET pos == CHOOSE k \in 1..Len(input) :
                       input[k] = "/" /\ \A j \in 1..(k - 1) : input[j] # "/"
         IN Some(<<SubSeq(input, 1, pos - 1), SubSeq(input, pos + 1, Len(input))>>)
    ELSE None

\* impl FromStr for MainAddressSelector
from_str(input) ==
    IF split_once(input) = None
    THEN Err("malformed")
    ELSE LET proto == Unwrap(split_once(input))[1]
             val == Unwrap(split_once(input))[2]
         IN IF proto = <<"i", "p", "a", "d", "d", "r">>
            THEN (IF parse_ip(val).ok THEN Ok(Ip(parse_ip(val).value)) ELSE parse_ip(val))
            ELSE IF proto = <<"n", "e", "t", "w", "o", "r", "k">>
            THEN Ok(Network(val))
            ELSE Err("malformed")

\* impl Serialize: serialize_str(&self.to_string()); the same as Display.
Serialize ==
    /\ selector_text = None
    /\ selector_text' = Some(to_string(Unwrap(selector)))
    /\ UNCHANGED <<selector, selector_parsed, runner, serial_unit, rdr_unit>>

\* impl Deserialize: visit_str calls value.parse(), i.e. from_str.
Deserialize ==
    /\ IsSome(selector_text)
    /\ selector_parsed = None
    /\ selector_parsed' = Some(from_str(Unwrap(selector_text)))
    /\ UNCHANGED <<selector, selector_text, runner, serial_unit, rdr_unit>>

NextSelector ==
    \/ Serialize
    \/ Deserialize

InitSelector ==
    /\ RunnerIdle
    /\ SerialIdle
    /\ RdrIdle
    /\ \E sel \in Selectors : selector = Some(sel)
    /\ selector_text = None
    /\ selector_parsed = None

SpecSelector == InitSelector /\ [][NextSelector]_vars

\* ------------------------------------------------------------------ C28
\* C28 (selector round trip): parsing the text written for a selector
\* succeeds and yields the selector again, for both variants.
C28_RoundTrip ==
    IsSome(selector_parsed) =>
       /\ Unwrap(selector_parsed).ok
       /\ Unwrap(selector_parsed).value = Unwrap(selector)

\* ================================================== PortRedirection, alone
\* The longest list of interfaces, protocols or addresses.
MaxList == 2

RECURSIVE Lists(_, _)
Lists(S, n) ==
    IF n = 0 THEN {<<>>}
    ELSE Lists(S, n - 1) \cup { Append(l, x) : l \in { u \in Lists(S, n - 1) : Len(u) = n - 1 },
                                              x \in S }

NonEmptyLists(S) == Lists(S, MaxList) \ {<<>>}

\* enum NetProto and its Display.
NetProto == {"Tcp", "Udp", "Sctp"}
net_proto_to_string(proto) ==
    CASE proto = "Tcp" -> "tcp"
      [] proto = "Udp" -> "udp"
      [] proto = "Sctp" -> "sctp"

\* enum PortNum and its Display.
Single(port) == [variant |-> "Single", port |-> port, len |-> 1]
Range(first, len) == [variant |-> "Range", port |-> first, len |-> len]
port_num_to_string(p) ==
    IF p.variant = "Single"
    THEN ToString(p.port)
    ELSE ToString(p.port) \o ":" \o ToString(p.len)

\* ipcidr::IpCidr (IPv4): an address and a prefix length, its Display and
\* the network of the one host.
IpCidr(addr, prefix) == [addr |-> addr, prefix |-> prefix]
ip_cidr_to_string(cidr) == cidr.addr \o "/" \o ToString(cidr.prefix)
to_singleton(cidr) == [cidr EXCEPT !.prefix = 32]

\* crate::util::mk_string: the items between open and close, sep between
\* two items.
RECURSIVE mk_string_items(_, _)
mk_string_items(items, sep) ==
    IF Len(items) = 1 THEN Head(items)
    ELSE Head(items) \o sep \o mk_string_items(Tail(items), sep)

mk_string(items, open, sep, close) == open \o mk_string_items(items, sep) \o close

\* struct PortRedirection (origin plays no part in the rule)
PortRedirection(ifaces, proto, addresses, source_port, dest_port, dest_addr) ==
    [ifaces |-> ifaces, proto |-> proto, origin |-> "origin", addresses |-> addresses,
     source_port |-> source_port, dest_port |-> dest_port, dest_addr |-> dest_addr]

\* PortRedirection::to_pf_rule; unwrap of a None panics.
cidr_text(addr) == ip_cidr_to_string(to_singleton(addr))
to_pf_rule(self) ==
    IF self.ifaces = None \/ self.dest_addr = None
    THEN Err("panic")
    ELSE LET ifaces == Unwrap(self.ifaces)
             protos == mk_string([k \in 1..Len(self.proto) |-> net_proto_to_string(self.proto[k])],
                                 "{", ",", "}")
             ext_ifs == mk_string(ifaces, "{", ",", "}")
             dest_addr == Unwrap(self.dest_addr)
             source == IF self.addresses = None
                       THEN "any"
                       ELSE mk_string([k \in 1..Len(Unwrap(self.addresses)) |->
                                          cidr_text(Unwrap(self.addresses)[k])],
                                      "{", ",", "}")
         IN Ok("rdr on " \o ext_ifs \o " proto " \o protos \o " from any to " \o source
               \o " port " \o port_num_to_string(self.source_port)
               \o " -> " \o cidr_text(dest_addr)
               \o " port " \o ToString(self.dest_port))

\* A with_host_info that takes the host's interfaces whatever the caller
\* had chosen.
with_host_info_overwrites(self, ext_ifaces, main_ip) ==
    [self EXCEPT !.ifaces = Some(ext_ifaces), !.dest_addr = Some(main_ip)]

\* PortRedirection::with_host_info
with_host_info(self, ext_ifaces, main_ip) ==
    [self EXCEPT !.ifaces = IF self.ifaces = None THEN Some(ext_ifaces) ELSE @,
                 !.dest_addr = Some(main_ip)]

\* The inputs.
Ifaces == {"em0", "em1"}
ExtIfaces == { <<"cxl0">>, <<"cxl0", "cxl1">> }
Cidrs == { IpCidr("192.168.1.1", 24), IpCidr("10.0.0.2", 8) }
SourcePorts == { Single(22), Range(8000, 10) }
DestPorts == {88}
Redirections ==
    { PortRedirection(ifaces, proto, addresses, source_port, dest_port, dest_addr) :
        ifaces \in {None} \cup { Some(l) : l \in NonEmptyLists(Ifaces) },
        proto \in NonEmptyLists(NetProto),
        addresses \in {None} \cup { Some(l) : l \in NonEmptyLists(Cidrs) },
        source_port \in SourcePorts,
        dest_port \in DestPorts,
        dest_addr \in {None} \cup { Some(c) : c \in Cidrs } }

\* Whether with_host_info has been called on the redirection.
Hosted ==
    /\ IsSome(rdr_call)
    /\ (Unwrap(rdr_call).op = "with_host_info" \/ Unwrap(rdr_call).hosted)

WithHostInfo ==
    \E ext_ifaces \in ExtIfaces, main_ip \in Cidrs :
        /\ rdr' = Some(with_host_info(Unwrap(rdr), ext_ifaces, main_ip))
        /\ rdr_call' = Some([op |-> "with_host_info", before |-> Unwrap(rdr), hosted |-> TRUE,
                              ext_ifaces |-> ext_ifaces, main_ip |-> main_ip, ret |-> None])
        /\ UNCHANGED <<runner, serial_unit, selector_unit>>

ToPfRule ==
    /\ rdr_call' = Some([op |-> "to_pf_rule", before |-> Unwrap(rdr), hosted |-> Hosted,
                          ext_ifaces |-> <<>>, main_ip |-> None,
                          ret |-> Some(to_pf_rule(Unwrap(rdr)))])
    /\ UNCHANGED <<rdr, runner, serial_unit, selector_unit>>

NextRdr ==
    \/ WithHostInfo
    \/ ToPfRule

InitRdr ==
    /\ RunnerIdle
    /\ SerialIdle
    /\ SelectorIdle
    /\ \E r \in Redirections : rdr = Some(r)
    /\ rdr_call = None

SpecRdr == InitRdr /\ [][NextRdr]_vars

\* ------------------------------------------------------------------ C21
\* The brace-list of a list of texts: "{" first "," second ... "}".
RECURSIVE Commas(_)
Commas(items) ==
    IF Len(items) = 1 THEN items[1]
    ELSE Commas(SubSeq(items, 1, Len(items) - 1)) \o "," \o items[Len(items)]

BraceList(items) == "{" \o Commas(items) \o "}"

\* C21 (port redirection): with_host_info(ext_ifaces, main_ip) sets ifaces
\* to ext_ifaces only when it was None, always sets dest_addr to main_ip and
\* leaves the rest alone; afterwards to_pf_rule yields
\* "rdr on {ifaces} proto {protos} from any to T port P -> D/32 port N", T
\* being "any" without addresses and else the brace-list of the addresses as
\* single hosts, protos and ifaces in list order.
C21_PfRule ==
    IsSome(rdr_call) =>
       LET call == Unwrap(rdr_call)
           now == Unwrap(rdr)
           was == call.before
       IN /\ call.op = "with_host_info" =>
                /\ now.ifaces = (IF was.ifaces = None THEN Some(call.ext_ifaces) ELSE was.ifaces)
                /\ now.dest_addr = Some(call.main_ip)
                /\ now.proto = was.proto
                /\ now.addresses = was.addresses
                /\ now.source_port = was.source_port
                /\ now.dest_port = was.dest_port
          /\ (call.op = "to_pf_rule" /\ call.hosted) =>
                /\ now = was
                /\ call.ret = Some(Ok(
                      "rdr on " \o BraceList(Unwrap(now.ifaces))
                      \o " proto " \o BraceList([k \in 1..Len(now.proto) |->
                             CASE now.proto[k] = "Tcp" -> "tcp"
                               [] now.proto[k] = "Udp" -> "udp"
                               [] now.proto[k] = "Sctp" -> "sctp"])
                      \o " from any to "
                      \o (IF now.addresses = None THEN "any"
                          ELSE BraceList([k \in 1..Len(Unwrap(now.addresses)) |->
                                   Unwrap(now.addresses)[k].addr \o "/32"]))
                      \o " port "
                      \o (IF now.source_port.variant = "Single"
                          THEN ToString(now.source_port.port)
                          ELSE ToString(now.source_port.port) \o ":" \o ToString(now.source_port.len))
                      \o " -> " \o Unwrap(now.dest_addr).addr \o "/32"
                      \o " port " \o ToString(now.dest_port)))

\* The case of test_generated_pf_rdr_rule: no ifaces of its own, tcp and udp,
\* no addresses, port 22 to port 88, host info (cxl0, 192.168.1.1/24).
C21_Witness ==
    /\ IsSome(rdr_call)
    /\ Unwrap(rdr_call).op = "to_pf_rule"
    /\ Unwrap(rdr_call).hosted
    /\ Unwrap(rdr).proto = <<"Tcp", "Udp">>
    /\ Unwrap(rdr).addresses = None
    /\ Unwrap(rdr).ifaces = Some(<<"cxl0">>)
    /\ Unwrap(rdr_call).ret = Some(Ok(
           "rdr on {cxl0} proto {tcp,udp} from any to any port 22 -> 192.168.1.1/32 port 88"))
====
